---- MODULE Spec2Model ----
(***************************************************************************)
(* Model of tempo_importer.py: the row normaliser (parse_hours,            *)
(* parse_date), the remote work-log client (get_issue_id,                  *)
(* log_time_to_tempo), the CSV worksheet adapter (update_cell, _save) and  *)
(* the import orchestrator (process_worksheet).                            *)
(*                                                                         *)
(* Texts are sequences of one-character strings, so that strip, replace,   *)
(* upper and the number / date grammars are computed as the code computes  *)
(* them.  A sheet is a sequence of rows, the header row first; a row is a  *)
(* sequence of cells.                                                      *)
(*                                                                         *)
(* Spec      one invocation on a sheet of up to MaxRows data rows          *)
(* SpecRerun up to MaxRuns invocations, one after the other, on one source *)
(* Spec3     one invocation on the three-row sources of the end-to-end     *)
(*           property                                                      *)
(* SpecDate  one call of parse_date on a text of up to MaxDateLen          *)
(*           characters                                                    *)
(***************************************************************************)
EXTENDS Integers, Sequences, FiniteSets, TLC

\* ------------------------------------------------------------------ bounds
MaxRows == 2
MaxRuns == 2
MaxDateLen == 5

\* ------------------------------------------------------- column constants
COL_DATE == 0
COL_TASK_ID == 1
COL_DESCRIPTION == 2
COL_HOURS == 3
COL_IMPORTED == 4

\* ------------------------------------------------------------ text helpers
Digits == {"0", "1", "2", "3", "4", "5", "6", "7", "8", "9"}

DigitVal(c) ==
    CASE c = "0" -> 0 [] c = "1" -> 1 [] c = "2" -> 2 [] c = "3" -> 3
      [] c = "4" -> 4 [] c = "5" -> 5 [] c = "6" -> 6 [] c = "7" -> 7
      [] c = "8" -> 8 [] c = "9" -> 9

IsSpace(c) == c = " "

RECURSIVE lstrip(_)
lstrip(s) == IF s # <<>> /\ IsSpace(Head(s)) THEN lstrip(Tail(s)) ELSE s

RECURSIVE rstripSpace(_)
rstripSpace(s) ==
    IF s # <<>> /\ IsSpace(s[Len(s)]) THEN rstripSpace(SubSeq(s, 1, Len(s) - 1)) ELSE s

\* str.strip()
strip(s) == rstripSpace(lstrip(s))

\* str.rstrip("."): removes every trailing period
RECURSIVE rstripDot(_)
rstripDot(s) ==
    IF s # <<>> /\ s[Len(s)] = "." THEN rstripDot(SubSeq(s, 1, Len(s) - 1)) ELSE s

\* str.replace(",", ".")
replaceComma(s) == [k \in 1..Len(s) |-> IF s[k] = "," THEN "." ELSE s[k]]

UpperChar(c) ==
    CASE c = "a" -> "A" [] c = "b" -> "B" [] c = "c" -> "C" [] c = "f" -> "F"
      [] c = "i" -> "I" [] c = "n" -> "N" [] c = "x" -> "X" [] OTHER -> c

\* str.upper()
upper(s) == [k \in 1..Len(s) |-> UpperChar(s[k])]

\* Python truthiness of a str
Truthy(s) == s # <<>>

AllDigits(s) == \A k \in 1..Len(s) : s[k] \in Digits

RECURSIVE DigitsToInt(_)
DigitsToInt(s) ==
    IF s = <<>> THEN 0 ELSE 10 * DigitsToInt(SubSeq(s, 1, Len(s) - 1)) + DigitVal(s[Len(s)])

RECURSIVE Pow10(_)
Pow10(n) == IF n = 0 THEN 1 ELSE 10 * Pow10(n - 1)

\* position of the first "." in s, or 0
RECURSIVE DotPos(_, _)
DotPos(s, k) == IF k > Len(s) THEN 0 ELSE IF s[k] = "." THEN k ELSE DotPos(s, k + 1)

\* ------------------------------------------------------------ parse_hours
\* float(text): "value" with mantissa m and k fractional digits (m / 10^k),
\* "inf", "nan", or "error" (ValueError).  Grammar: optional sign, then
\* inf | infinity | nan (any case), or digits with at most one "." and at
\* least one digit.
FloatBody(t) == IF t # <<>> /\ Head(t) \in {"+", "-"} THEN Tail(t) ELSE t

FloatNeg(t) == t # <<>> /\ Head(t) = "-"

float(t) ==
    LET b == FloatBody(t)
        d == DotPos(b, 1)
        ip == IF d = 0 THEN b ELSE SubSeq(b, 1, d - 1)
        fp == IF d = 0 THEN <<>> ELSE SubSeq(b, d + 1, Len(b))
    IN  IF upper(b) \in {<<"I", "N", "F">>, <<"I", "N", "F", "I", "N", "I", "T", "Y">>}
        THEN [kind |-> "inf", neg |-> FloatNeg(t), m |-> 0, k |-> 0]
        ELSE IF upper(b) = <<"N", "A", "N">>
        THEN [kind |-> "nan", neg |-> FALSE, m |-> 0, k |-> 0]
        ELSE IF AllDigits(ip) /\ AllDigits(fp) /\ Len(ip) + Len(fp) > 0
        THEN [kind |-> "value", neg |-> FloatNeg(t),
              m |-> DigitsToInt(ip \o fp), k |-> Len(fp)]
        ELSE [kind |-> "error", neg |-> FALSE, m |-> 0, k |-> 0]

\* int(hours * 3600): truncation toward zero
SecondsOf(f) ==
    LET q == (f.m * 3600) \div Pow10(f.k)
    IN  IF f.neg THEN 0 - q ELSE q

None == [kind |-> "None", v |-> 0]

Some(n) == [kind |-> "value", v |-> n]

\* the exception that escapes parse_hours (only ValueError is caught)
OverflowError == [kind |-> "OverflowError", v |-> 0]

parse_hours(hours_str) ==
    IF ~Truthy(hours_str) \/ ~Truthy(strip(hours_str))
    THEN None
    ELSE LET f == float(replaceComma(strip(hours_str)))
         IN  CASE f.kind = "error" -> None          \* float() raises ValueError
               [] f.kind = "nan" -> None            \* int(nan) raises ValueError
               [] f.kind = "inf" -> OverflowError   \* int(inf) raises OverflowError
               [] OTHER -> Some(SecondsOf(f))

\* ------------------------------------------------------------- parse_date
IsLeap(y) == (y % 4 = 0 /\ y % 100 # 0) \/ y % 400 = 0

DaysInMonth(y, m) ==
    CASE m \in {1, 3, 5, 7, 8, 10, 12} -> 31
      [] m \in {4, 6, 9, 11} -> 30
      [] OTHER -> IF IsLeap(y) THEN 29 ELSE 28

\* datetime(year, month, day) does not raise ValueError
ValidDate(y, m, d) == m \in 1..12 /\ d \in 1..DaysInMonth(y, m)

\* re.match(r"(\d{1,2})\.(\d{1,2})", t): anchored at the start only; the day
\* group is the one or two leading digits that are followed by ".", the month
\* group takes two digits when it can.
DayLen(t) ==
    IF Len(t) >= 3 /\ t[1] \in Digits /\ t[2] \in Digits /\ t[3] = "."
        /\ Len(t) >= 4 /\ t[4] \in Digits THEN 2
    ELSE IF Len(t) >= 3 /\ t[1] \in Digits /\ t[2] = "." /\ t[3] \in Digits THEN 1
    ELSE 0

MonthLen(t, dl) ==
    IF Len(t) >= dl + 3 /\ t[dl + 3] \in Digits THEN 2 ELSE 1

NoDate == [kind |-> "None", y |-> 0, m |-> 0, d |-> 0]

parse_date(date_str, year) ==
    IF ~Truthy(date_str) \/ ~Truthy(strip(date_str))
    THEN NoDate
    ELSE LET t == rstripDot(strip(date_str))
             dl == DayLen(t)
         IN  IF dl = 0
             THEN NoDate
             ELSE LET day == DigitsToInt(SubSeq(t, 1, dl))
                      month == DigitsToInt(SubSeq(t, dl + 2, dl + 1 + MonthLen(t, dl)))
                  IN  IF ValidDate(year, month, day)
                      THEN [kind |-> "date", y |-> year, m |-> month, d |-> day]
                      ELSE NoDate

\* ------------------------------------------------------------------ inputs
Header == <<<<"d">>, <<"t">>, <<"c">>, <<"h">>, <<"i">>>>

DateTexts == { <<>>, <<" ">>, <<"1", ".", "1", "2", ".">>, <<"3", "1", ".", "2", ".">> }

TaskTexts == { <<>>, <<" ", "a", "b", "-", "1">> }

Description == <<"x">>

HoursTexts ==
    { <<>>, <<"2", ",", "5">>, <<"0">>, <<"a", "b", "c">>, <<"i", "n", "f">>, <<"n", "a", "n">> }

MarkerTexts == { <<>>, <<" ">>, <<"0", "1", ".", "1", "1", ".">> }

\* a blank line, a row of a file that has no imported column yet, and a row
\* whose task cell holds only white space
ExtraRows ==
    { <<>>,
      <<<<"1", ".", "1", "2", ".">>, <<"a", "b", "-", "1">>, Description, <<"0", ",", "5">>>>,
      <<<<"1", ".", "1", "2", ".">>, <<" ">>, Description, <<"2", ",", "5">>, <<>>>> }

Rows ==
    { <<d, t, Description, h, m>> :
        d \in DateTexts, t \in TaskTexts, h \in HoursTexts, m \in MarkerTexts }
    \cup ExtraRows

RECURSIVE SeqsUpTo(_, _)
SeqsUpTo(S, n) ==
    IF n = 0 THEN { <<>> }
    ELSE LET shorter == SeqsUpTo(S, n - 1)
         IN  shorter \cup { Append(q, x) : q \in { r \in shorter : Len(r) = n - 1 }, x \in S }

\* rows that may fill every position of a sheet: importable, already imported,
\* hours that are no number; a sheet has at most one row of Rows that is not
\* one of them
CoreRows ==
    { <<<<"1", ".", "1", "2", ".">>, <<" ", "a", "b", "-", "1">>, Description, <<"2", ",", "5">>, <<>>>>,
      <<<<"1", ".", "1", "2", ".">>, <<" ", "a", "b", "-", "1">>, Description, <<"2", ",", "5">>,
        <<"0", "1", ".", "1", "1", ".">>>>,
      <<<<"1", ".", "1", "2", ".">>, <<" ", "a", "b", "-", "1">>, Description, <<"a", "b", "c">>, <<>>>> }

RowSeqs ==
    LET core == SeqsUpTo(CoreRows, MaxRows)
    IN  core \cup { [q EXCEPT ![k] = r] : q \in core, k \in 1..MaxRows, r \in Rows }

Sheets == { <<>> } \cup { <<Header>> \o rows : rows \in RowSeqs }

Years == { 2024 }

\* datetime.now().strftime("%d.%m.%Y"), the day and month being fixed here
YearDigits(y) ==
    CASE y = 2023 -> <<"2", "0", "2", "3">>
      [] y = 2024 -> <<"2", "0", "2", "4">>
      [] OTHER -> <<"2", "0", "2", "5">>

imported_date(y) == <<"0", "2", ".", "1", "1", ".">> \o YearDigits(y)

\* the id the issue tracker answers for a key
JiraId(key) == 10000 + Len(key)

\* ------------------------------------------------------------------- state
VARIABLES
    file,            \* the persisted source: rows of cells, header first
    data,            \* worksheet._data, which get_all_values() hands out
    year,            \* datetime.now().year
    pc,              \* "idle", or the position inside process_worksheet
    dry_run,
    row_idx,         \* 1-based sheet row of the loop (2 = first data row)
    imported_count,
    skipped_count,
    total_seconds,   \* total_hours * 3600
    cache,           \* _issue_id_cache: key -> id
    events,          \* history: remote calls and cell writes, in order
    loads,           \* history: the sheet each invocation read
    runs_left,       \* how many more times the tool will be invoked
    runs,            \* history: one record per ended invocation
    text,            \* the text handed to parse_date when it is called alone
    parsed           \* what that call returned

vars == <<file, data, year, pc, dry_run, row_idx, imported_count,
          skipped_count, total_seconds, cache, events, loads, runs, runs_left,
          text, parsed>>

counters == <<imported_count, skipped_count, total_seconds>>

\* --------------------------------------------------------- worksheet adapter
\* while len(row) < 5: row.append("")
RECURSIVE PadRow(_)
PadRow(row) == IF Len(row) < 5 THEN PadRow(Append(row, <<>>)) ELSE row

RECURSIVE ExtendRows(_, _)
ExtendRows(d, row_i) == IF Len(d) <= row_i THEN ExtendRows(Append(d, <<>>), row_i) ELSE d

RECURSIVE ExtendCols(_, _)
ExtendCols(r, col_i) == IF Len(r) <= col_i THEN ExtendCols(Append(r, <<>>), col_i) ELSE r

\* variant: the 1-based row taken as a 0-based index
update_cell_next_row(d, row, col, value) ==
    LET d1 == ExtendRows(d, row)
        r1 == ExtendCols(d1[row + 1], col - 1)
    IN  [d1 EXCEPT ![row + 1] = [r1 EXCEPT ![col] = value]]

\* LocalCSVWorksheet.update_cell(row, col, value): row and col are 1-based;
\* row_i and col_i are the 0-based indexes of the code
update_cell(d, row, col, value) ==
    LET row_i == row - 1
        col_i == col - 1
        d1 == ExtendRows(d, row_i)
        r1 == ExtendCols(d1[row_i + 1], col_i)
    IN  [d1 EXCEPT ![row_i + 1] = [r1 EXCEPT ![col_i + 1] = value]]

\* what _save leaves in the file when the process dies inside it: open(.., "w")
\* has truncated the file and only some leading rows have been written
TornSaves(d) == { SubSeq(d, 1, n) : n \in 0..(Len(d) - 1) }

\* ------------------------------------------------------------ orchestrator
Running == pc # "idle"

InLoop == pc = "row" /\ row_idx <= Len(data)

row == PadRow(data[row_idx])

date_str == row[COL_DATE + 1]
task_id == row[COL_TASK_ID + 1]
hours_str == row[COL_HOURS + 1]
imported == row[COL_IMPORTED + 1]

time_seconds == parse_hours(hours_str)

\* variant: "is not None" in place of truthiness
TruthyIntNotNone(t) == t.kind = "value"

\* Python truthiness of an Optional[int]
TruthyInt(t) == t.kind = "value" /\ t.v # 0

parsed_date == parse_date(date_str, year)

\* task_id.strip().upper()
issue_key == upper(strip(task_id))

\* variant: the dry_run test left out
OutcomeIgnoresDryRun(r, y, dry) ==
    LET ts == parse_hours(r[COL_HOURS + 1])
    IN  IF ts = OverflowError THEN "raise"
        ELSE IF Truthy(r[COL_IMPORTED + 1]) /\ Truthy(strip(r[COL_IMPORTED + 1]))
        THEN "already_imported"
        ELSE IF ~Truthy(r[COL_DATE + 1]) \/ ~Truthy(r[COL_TASK_ID + 1])
                \/ ~Truthy(r[COL_HOURS + 1])
        THEN "empty"
        ELSE IF parse_date(r[COL_DATE + 1], y).kind = "None" THEN "invalid_date"
        ELSE IF ~(ts.kind = "value" /\ ts.v # 0) THEN "invalid_hours"
        ELSE "import"

\* the branch of the loop body the current row takes
Outcome(r, y, dry) ==
    LET ts == parse_hours(r[COL_HOURS + 1])
    IN  IF ts = OverflowError THEN "raise"
        ELSE IF Truthy(r[COL_IMPORTED + 1]) /\ Truthy(strip(r[COL_IMPORTED + 1]))
        THEN "already_imported"
        ELSE IF ~Truthy(r[COL_DATE + 1]) \/ ~Truthy(r[COL_TASK_ID + 1])
                \/ ~Truthy(r[COL_HOURS + 1])
        THEN "empty"
        ELSE IF parse_date(r[COL_DATE + 1], y).kind = "None" THEN "invalid_date"
        ELSE IF ~TruthyInt(ts) THEN "invalid_hours"
        ELSE IF dry THEN "dry_run"
        ELSE "import"

\* variant: integer division, time_seconds // 3600
AddHoursWhole(total, ts) ==
    IF ts.kind = "value" /\ ts.v # 0 THEN total + (ts.v \div 3600) * 3600 ELSE total

\* total_hours += time_seconds / 3600, when time_seconds is truthy
AddHours(total, ts) == IF TruthyInt(ts) THEN total + ts.v ELSE total

Event(op, ok) == [run |-> Len(loads), row |-> row_idx, op |-> op, ok |-> ok]

Ended(how) ==
    [dry |-> dry_run, how |-> how, imported |-> imported_count,
     skipped |-> skipped_count, total |-> total_seconds, rows_done |-> row_idx - 2]

\* variant: the loop does not advance
NextRowStay == /\ pc' = "row"
               /\ row_idx' = row_idx

\* the rest of the loop body is over: next iteration
NextRow == /\ pc' = "row"
           /\ row_idx' = row_idx + 1

Pad == data' = [data EXCEPT ![row_idx] = PadRow(@)]

InitProcess ==
    /\ data = <<>>
    /\ pc = "idle"
    /\ dry_run = FALSE
    /\ row_idx = 2
    /\ imported_count = 0
    /\ skipped_count = 0
    /\ total_seconds = 0
    /\ cache = <<>>
    /\ events = <<>>
    /\ loads = <<>>
    /\ runs = <<>>

Pending == [kind |-> "pending", y |-> 0, m |-> 0, d |-> 0]

\* one invocation on any of the sheets
Init ==
    /\ file \in Sheets
    /\ runs_left = 1
    /\ text = <<>>
    /\ parsed = Pending
    /\ year \in Years
    /\ InitProcess

\* main(): a new process; _load reads the file, the counters start at zero
Start(dry) ==
    /\ pc = "idle"
    /\ runs_left > 0
    /\ runs_left' = runs_left - 1
    /\ data' = file
    /\ dry_run' = dry
    /\ pc' = "row"
    /\ row_idx' = 2
    /\ imported_count' = 0
    /\ skipped_count' = 0
    /\ total_seconds' = 0
    /\ cache' = <<>>
    /\ loads' = Append(loads, [sheet |-> file, dry |-> dry])
    /\ UNCHANGED <<file, year, events, runs, text, parsed>>

\* len(all_values) <= 1: return 0, 0, 0.0; or the loop is over: return
Return ==
    /\ pc = "row"
    /\ row_idx > Len(data)
    /\ pc' = "idle"
    /\ runs' = Append(runs, Ended("returned"))
    /\ UNCHANGED <<file, data, year, dry_run, row_idx, counters, cache, events, loads, runs_left, text, parsed>>

\* parse_hours raises OverflowError outside the try block: the run is over
RowRaise ==
    /\ InLoop
    /\ Outcome(row, year, dry_run) = "raise"
    /\ Pad
    /\ pc' = "idle"
    /\ runs' = Append(runs, Ended("raised"))
    /\ UNCHANGED <<file, year, dry_run, row_idx, counters, cache, events, loads, runs_left, text, parsed>>

\* variant: the hours parsed only after the imported test
RowAlreadyImportedNoHours ==
    /\ InLoop
    /\ Truthy(imported) /\ Truthy(strip(imported))
    /\ data' = [data EXCEPT ![row_idx] = PadRow(@)]
    /\ skipped_count' = skipped_count + 1
    /\ pc' = "row"
    /\ row_idx' = row_idx + 1
    /\ UNCHANGED <<file, year, dry_run, imported_count, total_seconds, cache, events, runs, loads, runs_left, text, parsed>>

RowAlreadyImported ==
    /\ InLoop
    /\ Outcome(row, year, dry_run) = "already_imported"
    /\ Pad
    /\ total_seconds' = AddHours(total_seconds, time_seconds)
    /\ skipped_count' = skipped_count + 1
    /\ NextRow
    /\ UNCHANGED <<file, year, dry_run, imported_count, cache, events, runs, loads, runs_left, text, parsed>>

\* variant: a row with an empty cell is counted as skipped
RowEmptyCountsSkipped ==
    /\ InLoop
    /\ Outcome(row, year, dry_run) = "empty"
    /\ Pad
    /\ total_seconds' = AddHours(total_seconds, time_seconds)
    /\ skipped_count' = skipped_count + 1
    /\ NextRow
    /\ UNCHANGED <<file, year, dry_run, imported_count, cache, events, runs, loads, runs_left, text, parsed>>

RowEmpty ==
    /\ InLoop
    /\ Outcome(row, year, dry_run) = "empty"
    /\ Pad
    /\ total_seconds' = AddHours(total_seconds, time_seconds)
    /\ NextRow
    /\ UNCHANGED <<file, year, dry_run, imported_count, skipped_count, cache, events, runs, loads, runs_left, text, parsed>>

RowInvalidDate ==
    /\ InLoop
    /\ Outcome(row, year, dry_run) = "invalid_date"
    /\ Pad
    /\ total_seconds' = AddHours(total_seconds, time_seconds)
    /\ skipped_count' = skipped_count + 1
    /\ NextRow
    /\ UNCHANGED <<file, year, dry_run, imported_count, cache, events, runs, loads, runs_left, text, parsed>>

RowInvalidHours ==
    /\ InLoop
    /\ Outcome(row, year, dry_run) = "invalid_hours"
    /\ Pad
    /\ total_seconds' = AddHours(total_seconds, time_seconds)
    /\ skipped_count' = skipped_count + 1
    /\ NextRow
    /\ UNCHANGED <<file, year, dry_run, imported_count, cache, events, runs, loads, runs_left, text, parsed>>

RowDryRun ==
    /\ InLoop
    /\ Outcome(row, year, dry_run) = "dry_run"
    /\ Pad
    /\ total_seconds' = AddHours(total_seconds, time_seconds)
    /\ imported_count' = imported_count + 1
    /\ NextRow
    /\ UNCHANGED <<file, year, dry_run, skipped_count, cache, events, runs, loads, runs_left, text, parsed>>

\* variant: get_issue_id without the cache test
RowImportAlwaysLooksUp ==
    /\ InLoop
    /\ Outcome(row, year, dry_run) = "import"
    /\ Pad
    /\ total_seconds' = AddHours(total_seconds, time_seconds)
    /\ pc' = "lookup"
    /\ UNCHANGED <<file, year, dry_run, row_idx, imported_count, skipped_count,
                   cache, events, runs, loads, runs_left, text, parsed>>

\* live mode: log_time_to_tempo is entered; get_issue_id answers from the
\* cache without a request when it holds the key
RowImport ==
    /\ InLoop
    /\ Outcome(row, year, dry_run) = "import"
    /\ Pad
    /\ total_seconds' = AddHours(total_seconds, time_seconds)
    /\ pc' = IF issue_key \in DOMAIN cache THEN "post" ELSE "lookup"
    /\ UNCHANGED <<file, year, dry_run, row_idx, imported_count, skipped_count,
                   cache, events, runs, loads, runs_left, text, parsed>>

\* get_issue_id: requests.get answers 200; the id is cached
LookupFound ==
    /\ pc = "lookup"
    /\ cache' = [k \in DOMAIN cache \cup {issue_key} |->
                    IF k = issue_key THEN JiraId(issue_key) ELSE cache[k]]
    /\ events' = Append(events, Event("GET", TRUE))
    /\ pc' = "post"
    /\ UNCHANGED <<file, data, year, dry_run, row_idx, counters, runs, loads, runs_left, text, parsed>>

\* variant: log_time_to_tempo without the test of the id
LookupFailedGoesOn ==
    /\ pc = "lookup"
    /\ events' = Append(events, Event("GET", FALSE))
    /\ pc' = "post"
    /\ UNCHANGED <<file, data, year, dry_run, row_idx, counters, cache, runs, loads, runs_left, text, parsed>>

\* get_issue_id returns None on any other status (or requests.get raises, or
\* the answer holds no id): log_time_to_tempo raises ValueError, caught by
\* "except Exception"
LookupFailed ==
    /\ pc = "lookup"
    /\ events' = Append(events, Event("GET", FALSE))
    /\ skipped_count' = skipped_count + 1
    /\ NextRow
    /\ UNCHANGED <<file, data, year, dry_run, imported_count, total_seconds, cache, runs, loads, runs_left, text, parsed>>

\* requests.post answers 2xx
PostAccepted ==
    /\ pc = "post"
    /\ events' = Append(events, Event("POST", TRUE))
    /\ pc' = "mark"
    /\ UNCHANGED <<file, data, year, dry_run, row_idx, counters, cache, runs, loads, runs_left, text, parsed>>

\* raise_for_status raises HTTPError (or requests.post raises)
PostRejected ==
    /\ pc = "post"
    /\ events' = Append(events, Event("POST", FALSE))
    /\ skipped_count' = skipped_count + 1
    /\ NextRow
    /\ UNCHANGED <<file, data, year, dry_run, imported_count, total_seconds, cache, runs, loads, runs_left, text, parsed>>

\* worksheet.update_cell(row_idx, COL_IMPORTED + 1, imported_date) and _save
MarkImported ==
    /\ pc = "mark"
    /\ data' = update_cell(data, row_idx, COL_IMPORTED + 1, imported_date(year))
    /\ file' = data'
    /\ events' = Append(events, Event("update_cell", TRUE))
    /\ imported_count' = imported_count + 1
    /\ NextRow
    /\ UNCHANGED <<year, dry_run, skipped_count, total_seconds, cache, runs, loads, runs_left, text, parsed>>

\* response.json() or update_cell raises after the POST was accepted:
\* "except Exception" counts the row as skipped
MarkFailed ==
    /\ pc = "mark"
    /\ events' = Append(events, Event("update_cell", FALSE))
    /\ skipped_count' = skipped_count + 1
    /\ NextRow
    /\ UNCHANGED <<file, data, year, dry_run, imported_count, total_seconds, cache, runs, loads, runs_left, text, parsed>>

\* a live run is terminated from outside, between two steps
Terminate ==
    /\ Running
    /\ ~dry_run
    /\ pc' = "idle"
    /\ runs' = Append(runs, Ended("killed"))
    /\ UNCHANGED <<file, data, year, dry_run, row_idx, counters, cache, events, loads, runs_left, text, parsed>>

\* the process is terminated inside _save, after open(.., "w")
TerminateInSave ==
    /\ pc = "mark"
    /\ file' \in TornSaves(update_cell(data, row_idx, COL_IMPORTED + 1, imported_date(year)))
    /\ pc' = "idle"
    /\ runs' = Append(runs, Ended("killed_in_save"))
    /\ UNCHANGED <<data, year, dry_run, row_idx, counters, cache, events, loads, runs_left, text, parsed>>

Next ==
    \/ \E dry \in BOOLEAN : Start(dry)
    \/ Return
    \/ RowRaise
    \/ RowAlreadyImported
    \/ RowEmpty
    \/ RowInvalidDate
    \/ RowInvalidHours
    \/ RowDryRun
    \/ RowImport
    \/ LookupFound
    \/ LookupFailed
    \/ PostAccepted
    \/ PostRejected
    \/ MarkImported
    \/ MarkFailed
    \/ Terminate
    \/ TerminateInSave

Spec == Init /\ [][Next]_vars

\* the tool invoked again and again on the same source
RerunRows ==
    CoreRows \cup ExtraRows
    \cup { <<<<"3", "1", ".", "2", ".">>, <<" ", "a", "b", "-", "1">>, Description, <<"2", ",", "5">>, <<>>>>,
            <<<<"1", ".", "1", "2", ".">>, <<" ", "a", "b", "-", "1">>, Description, <<"i", "n", "f">>, <<>>>> }

SheetsRerun ==
    { <<Header, a>> : a \in RerunRows } \cup { <<Header, a, b>> : a, b \in RerunRows }

InitRerun ==
    /\ file \in SheetsRerun
    /\ runs_left = MaxRuns
    /\ text = <<>>
    /\ parsed = Pending
    /\ year \in Years
    /\ InitProcess

SpecRerun == InitRerun /\ [][Next]_vars

\* a source of three rows in any order: one already imported, one not imported
\* whose hours text is not a number, one valid
ImportedRows3 ==
    { <<<<"1", ".", "1", "2", ".">>, <<" ", "a", "b", "-", "1">>, Description, h,
        <<"0", "1", ".", "1", "1", ".">>>> :
        h \in { <<"2", ",", "5">>, <<"a", "b", "c">>, <<"i", "n", "f">> } }

BadHoursRows3 ==
    { <<d, t, Description, h, <<>>>> :
        d \in DateTexts, t \in TaskTexts,
        h \in { <<>>, <<"a", "b", "c">>, <<"i", "n", "f">> } }

ValidRow3 ==
    <<<<"1", ".", "1", "2", ".">>, <<" ", "a", "b", "-", "1">>, Description, <<"2", ",", "5">>, <<>>>>

Sheets3 ==
    { <<Header>> \o q :
        q \in UNION { { <<m, u, ValidRow3>>, <<m, ValidRow3, u>>, <<u, m, ValidRow3>>,
                        <<u, ValidRow3, m>>, <<ValidRow3, m, u>>, <<ValidRow3, u, m>> } :
                      m \in ImportedRows3, u \in BadHoursRows3 } }

Init3 ==
    /\ file \in Sheets3
    /\ runs_left = 1
    /\ text = <<>>
    /\ parsed = Pending
    /\ year \in Years
    /\ InitProcess

Spec3 == Init3 /\ [][Next]_vars

\* parse_date called alone, on every text of up to MaxDateLen characters
DateAlphabet == { "1", "2", "3", "9", ".", " ", "x" }

DateInputs == SeqsUpTo(DateAlphabet, MaxDateLen)

YearsDate == { 2023, 2024 }

InitDate ==
    /\ file = <<>>
    /\ runs_left = 0
    /\ text \in DateInputs
    /\ parsed = Pending
    /\ InitProcess
    /\ year \in YearsDate

\* parse_date(text): year is None, so datetime.now().year is used
CallParseDate ==
    /\ parsed = Pending
    /\ parsed' = parse_date(text, year)
    /\ UNCHANGED <<file, data, year, pc, dry_run, row_idx, counters, cache, events,
                   loads, runs, runs_left, text>>

NextDate == CallParseDate

SpecDate == InitDate /\ [][NextDate]_vars

\* ------------------------------------------------- vocabulary of the claims
Cell(sheet, r, c) ==
    IF r \in 1..Len(sheet) /\ c \in 1..Len(sheet[r]) THEN sheet[r][c] ELSE <<>>

NonBlank(t) == strip(t) # <<>>

Marked(sheet, r) == NonBlank(Cell(sheet, r, COL_IMPORTED + 1))

\* the sheet rows that are data rows
DataRowIdx(sheet) == 2..Len(sheet)

\* the sheet the running (or last) invocation read
Loaded == loads[Len(loads)].sheet

LastRun == runs[Len(runs)]

KilledKinds == { "killed", "killed_in_save" }

\* the step ends the process from outside
KillStep == Len(runs') > Len(runs) /\ runs'[Len(runs')].how \in KilledKinds

EventsOf(n, r) == { k \in DOMAIN events : events[k].run = n /\ events[k].row = r }

Accepted(n, r) ==
    \E k \in EventsOf(n, r) : events[k].op = "POST" /\ events[k].ok

Stamped(n, r) ==
    \E k \in EventsOf(n, r) : events[k].op = "update_cell" /\ events[k].ok

\* seconds of a row's hours cell when parse_hours gives a number, else 0
RowSeconds(sheet, r) ==
    LET t == parse_hours(Cell(sheet, r, COL_HOURS + 1))
    IN  IF t.kind = "value" THEN t.v ELSE 0

RECURSIVE SumSeconds(_, _)
SumSeconds(sheet, r) ==
    IF r > Len(sheet) THEN 0 ELSE RowSeconds(sheet, r) + SumSeconds(sheet, r + 1)

\* an unmarked row whose date, task and hours cells are all non-empty
Filled(sheet, r) ==
    /\ ~Marked(sheet, r)
    /\ Cell(sheet, r, COL_DATE + 1) # <<>>
    /\ Cell(sheet, r, COL_TASK_ID + 1) # <<>>
    /\ Cell(sheet, r, COL_HOURS + 1) # <<>>

DateParses(sheet, r) == parse_date(Cell(sheet, r, COL_DATE + 1), year).kind = "date"

HoursParse(sheet, r) == parse_hours(Cell(sheet, r, COL_HOURS + 1)).kind = "value"

HoursRaise(sheet, r) == parse_hours(Cell(sheet, r, COL_HOURS + 1)) = OverflowError

\* ---------------------------------------------------------------------- C1
\* C1 (as claimed): a data row whose imported cell is non-blank when the sheet
\* is read gets no remote call, in either mode and whatever its other cells
\* hold, and the loop counts it as skipped.
C1_MarkedRowSkipped ==
    /\ [](\A k \in DOMAIN events : ~Marked(loads[events[k].run].sheet, events[k].row))
    /\ [][(InLoop /\ Marked(Loaded, row_idx) /\ ~KillStep)
            => (skipped_count' = skipped_count + 1 /\ events' = events)]_vars

\* ---------------------------------------------------------------------- C2
\* C2 (as claimed): over two live runs that both return, no row has its
\* work-log accepted twice: what the first run submitted the second skips.
C2_AcceptedAtMostOnce ==
    \A a, b \in DOMAIN runs : \A r \in DataRowIdx(loads[a].sheet) :
        (a < b /\ runs[a].how = "returned" /\ runs[b].how = "returned"
           /\ ~runs[a].dry /\ ~runs[b].dry /\ Accepted(a, r))
        => ~Accepted(b, r)

\* C2 (amended): a row whose imported cell a run has written gets no remote
\* call and no write in any later run, however the runs ended; a row is
\* accepted in two runs only if in the earlier one its marker was not written.
C2_StampedNeverResubmitted ==
    \A k, l \in DOMAIN events :
        (events[k].run < events[l].run /\ events[k].row = events[l].row)
        => (~Stamped(events[k].run, events[k].row)
            /\ (events[k].op = "update_cell" => ~events[k].ok))

C2_Witness ==
    /\ Len(runs) = 2
    /\ runs[1].how = "returned" /\ ~runs[1].dry
    /\ runs[2].how = "returned" /\ ~runs[2].dry
    /\ Stamped(1, 2) /\ ~Marked(loads[1].sheet, 2)
    /\ EventsOf(2, 2) = {}
    /\ runs[2].skipped >= 1

\* ---------------------------------------------------------------------- C3
\* C3: a dry run issues no remote call and no update_cell, leaves the file as
\* it was, and returns as imported the number of importable rows.
Importable(sheet, r) ==
    /\ Filled(sheet, r)
    /\ DateParses(sheet, r)
    /\ RowSeconds(sheet, r) # 0

C3_DryRunFrame ==
    /\ [](/\ \A k \in DOMAIN events : ~loads[events[k].run].dry
          /\ \A n \in DOMAIN runs :
                (runs[n].dry /\ runs[n].how = "returned")
                => runs[n].imported =
                     Cardinality({ r \in DataRowIdx(loads[n].sheet) : Importable(loads[n].sheet, r) }))
    /\ [][(Running /\ dry_run) => file' = file]_vars

C3_Witness ==
    /\ runs # <<>>
    /\ LastRun.dry /\ LastRun.how = "returned"
    /\ LastRun.imported = 2
    /\ file = Loaded
    /\ events = <<>>

\* ---------------------------------------------------------------------- C4
\* the sheet rows of the first run's three-row source, by kind
ValidIdx3 == CHOOSE r \in 2..4 : loads[1].sheet[r] = ValidRow3

ImportedIdx3 == CHOOSE r \in 2..4 : Marked(loads[1].sheet, r)

BadHoursIdx3 == CHOOSE r \in 2..4 : r # ValidIdx3 /\ r # ImportedIdx3

FirstRunReturned == runs # <<>> /\ runs[1].how = "returned" /\ ~runs[1].dry

\* C4 (as claimed): with one imported row, one row of unparseable hours and
\* one valid row whose submission succeeds, the run returns imported = 1,
\* skipped = 2 and the valid row's hours as total.
C4_ThreeRows ==
    (FirstRunReturned /\ Accepted(1, ValidIdx3))
    => /\ runs[1].imported = 1
       /\ runs[1].skipped = 2
       /\ runs[1].total = RowSeconds(loads[1].sheet, ValidIdx3)

\* C4 (amended): when the valid row's submission succeeds and its marker is
\* written, the run returns imported = 1; skipped = 2 if the date, task and
\* hours cells of the row of unparseable hours are all non-empty and 1 if one
\* of them is empty; the total is the valid row's hours plus the hours of the
\* imported row when those parse.
C4_ThreeRowsAmended ==
    (FirstRunReturned /\ Stamped(1, ValidIdx3))
    => /\ runs[1].imported = 1
       /\ runs[1].skipped = (IF Filled(loads[1].sheet, BadHoursIdx3) THEN 2 ELSE 1)
       /\ runs[1].total = RowSeconds(loads[1].sheet, ValidIdx3)
                          + RowSeconds(loads[1].sheet, ImportedIdx3)

C4_Witness ==
    /\ FirstRunReturned
    /\ Stamped(1, ValidIdx3)
    /\ Filled(loads[1].sheet, BadHoursIdx3)
    /\ RowSeconds(loads[1].sheet, ImportedIdx3) = 9000
    /\ runs[1].imported = 1 /\ runs[1].skipped = 2 /\ runs[1].total = 18000

\* ---------------------------------------------------------------------- C5
\* C5: the total a run returns is the sum, over all data rows of the sheet it
\* read, of the seconds parse_hours gives (0 where it gives none), whatever
\* became of the row and in either mode.
C5_TotalHours ==
    \A n \in DOMAIN runs :
        runs[n].how = "returned" => runs[n].total = SumSeconds(loads[n].sheet, 2)

C5_Witness ==
    /\ runs # <<>>
    /\ LastRun.how = "returned"
    /\ LastRun.imported = 0 /\ LastRun.skipped = 1
    /\ Len(Loaded) = 3
    /\ Marked(Loaded, 2) /\ RowSeconds(Loaded, 2) = 9000
    /\ ~Filled(Loaded, 3) /\ ~Marked(Loaded, 3) /\ RowSeconds(Loaded, 3) = 9000
    /\ LastRun.total = 18000

C7_NeverAborts ==
    \A n \in DOMAIN runs :
        runs[n].how \notin KilledKinds
        => /\ runs[n].how = "returned"
           /\ runs[n].rows_done = (IF loads[n].sheet = <<>> THEN 0 ELSE Len(loads[n].sheet) - 1)

\* ---------------------------------------------------------------------- C8
SkipInvalidStep ==
    /\ skipped_count' = skipped_count + 1
    /\ imported_count' = imported_count
    /\ events' = events
    /\ pc' = "row" /\ row_idx' = row_idx + 1

ImportableStep ==
    IF dry_run
    THEN /\ imported_count' = imported_count + 1
         /\ skipped_count' = skipped_count
         /\ events' = events
         /\ pc' = "row" /\ row_idx' = row_idx + 1
    ELSE /\ pc' \in {"lookup", "post"}
         /\ row_idx' = row_idx
         /\ UNCHANGED <<imported_count, skipped_count>>

\* C8 (as claimed): an unmarked row with non-empty date, task and hours cells
\* is skipped as invalid exactly when its date or its hours do not parse, and
\* is importable whenever both parse.
C8_Classification ==
    [][(InLoop /\ Filled(Loaded, row_idx) /\ ~HoursRaise(Loaded, row_idx) /\ ~KillStep)
        => IF ~DateParses(Loaded, row_idx) \/ ~HoursParse(Loaded, row_idx)
           THEN SkipInvalidStep ELSE ImportableStep]_vars

\* C8 (amended): such a row is skipped as invalid exactly when its date does
\* not parse, or its hours do not parse or parse to zero seconds; it is
\* importable whenever the date parses and the hours parse to a non-zero
\* number of seconds; hours text on which parse_hours raises ends the run.
C8_ClassificationAmended ==
    [][(InLoop /\ Filled(Loaded, row_idx) /\ ~KillStep)
        => IF HoursRaise(Loaded, row_idx)
           THEN pc' = "idle" /\ runs'[Len(runs')].how = "raised"
           ELSE IF ~DateParses(Loaded, row_idx) \/ RowSeconds(Loaded, row_idx) = 0
           THEN SkipInvalidStep ELSE ImportableStep]_vars

C8_Witness ==
    /\ runs # <<>>
    /\ LastRun.how = "returned" /\ ~LastRun.dry
    /\ Len(Loaded) = 3
    /\ Filled(Loaded, 2) /\ DateParses(Loaded, 2)
    /\ Cell(Loaded, 2, COL_HOURS + 1) = <<"0">>
    /\ EventsOf(Len(runs), 2) = {}
    /\ Filled(Loaded, 3) /\ DateParses(Loaded, 3) /\ RowSeconds(Loaded, 3) # 0
    /\ Accepted(Len(runs), 3)
    /\ LastRun.skipped >= 1

\* ---------------------------------------------------------------------- C9
\* C9 (as claimed): wherever a live run is terminated, the persisted source
\* still holds every row it held when the run read it, with the same date,
\* task, description and hours, and every row that was marked is still
\* marked: nothing is lost for the next run.
C9_NothingLost ==
    (runs # <<>> /\ pc = "idle" /\ LastRun.how \in KilledKinds)
    => /\ Len(file) = Len(Loaded)
       /\ \A r \in 1..Len(Loaded) :
            /\ \A c \in 1..COL_IMPORTED : Cell(file, r, c) = Cell(Loaded, r, c)
            /\ Marked(Loaded, r) => Marked(file, r)

\* --------------------------------------------------------------------- C10
OpRank(op) == CASE op = "GET" -> 1 [] op = "POST" -> 2 [] OTHER -> 3

\* C10: within a run the remote calls and marker writes come in row order,
\* for one row in the order lookup, POST, marker write, each at most once.
C10_RowOrder ==
    \A k, l \in DOMAIN events :
        (k < l /\ events[k].run = events[l].run)
        => /\ events[k].row <= events[l].row
           /\ events[k].row = events[l].row => OpRank(events[k].op) < OpRank(events[l].op)

C10_Witness ==
    /\ Len(events) = 5
    /\ events[1] = [run |-> 1, row |-> 2, op |-> "GET", ok |-> TRUE]
    /\ events[2] = [run |-> 1, row |-> 2, op |-> "POST", ok |-> TRUE]
    /\ events[3] = [run |-> 1, row |-> 2, op |-> "update_cell", ok |-> TRUE]
    /\ events[4] = [run |-> 1, row |-> 3, op |-> "POST", ok |-> TRUE]
    /\ events[5] = [run |-> 1, row |-> 3, op |-> "update_cell", ok |-> TRUE]

\* --------------------------------------------------------------------- C11
\* the shape of the claim: D.M or DD.MM, then at most one period
OnePeriodOff(t) == IF t # <<>> /\ t[Len(t)] = "." THEN SubSeq(t, 1, Len(t) - 1) ELSE t

DayMonthShape(t) ==
    LET u == OnePeriodOff(t)
        p == DotPos(u, 1)
    IN  /\ p \in {2, 3}
        /\ Len(u) - p \in {1, 2}
        /\ AllDigits(SubSeq(u, 1, p - 1))
        /\ AllDigits(SubSeq(u, p + 1, Len(u)))

ShapeDay(t) == DigitsToInt(SubSeq(OnePeriodOff(t), 1, DotPos(OnePeriodOff(t), 1) - 1))

ShapeMonth(t) ==
    DigitsToInt(SubSeq(OnePeriodOff(t), DotPos(OnePeriodOff(t), 1) + 1, Len(OnePeriodOff(t))))

\* C11 (as claimed): parse_date returns a date exactly for a text that, once
\* trimmed, is D.M or DD.MM with at most one trailing period and names a
\* valid day of the year used; for every other text it returns no date.
C11_ParseDateShape ==
    parsed # Pending
    => IF DayMonthShape(strip(text))
          /\ ValidDate(year, ShapeMonth(strip(text)), ShapeDay(strip(text)))
       THEN parsed = [kind |-> "date", y |-> year,
                      m |-> ShapeMonth(strip(text)), d |-> ShapeDay(strip(text))]
       ELSE parsed = NoDate

\* --------------------------------------------------------------------- C12
\* the key of the row an event is about
KeyAt(k) == upper(strip(Cell(loads[events[k].run].sheet, events[k].row, COL_TASK_ID + 1)))

Lookups(n) == { k \in DOMAIN events : events[k].run = n /\ events[k].op = "GET" }

\* C12: in one process a key is looked up only while it is not cached; it is
\* cached only by a lookup that found it, with the id found, and its entry
\* stays as it is; so no key is looked up again once found, and a key whose
\* lookup failed is looked up again for the next importable row that has it.
C12_IssueIdCache ==
    /\ [](/\ \A a, b \in DOMAIN events :
                (a < b /\ a \in Lookups(events[b].run) /\ b \in Lookups(events[b].run)
                   /\ events[a].ok)
                => KeyAt(a) # KeyAt(b)
          /\ loads # <<>> =>
                \A key \in DOMAIN cache :
                    /\ cache[key] = JiraId(key)
                    /\ \E k \in Lookups(Len(loads)) : events[k].ok /\ KeyAt(k) = key)
    /\ [][loads' = loads
            => \A key \in DOMAIN cache : key \in DOMAIN cache' /\ cache'[key] = cache[key]]_vars
    /\ [][(InLoop /\ ~dry_run /\ Importable(Loaded, row_idx) /\ ~KillStep)
            => pc' = (IF issue_key \in DOMAIN cache THEN "post" ELSE "lookup")]_vars
    /\ [][(pc = "lookup" /\ ~KillStep)
            => /\ issue_key \notin DOMAIN cache
               /\ Len(events') = Len(events) + 1
               /\ events'[Len(events')].op = "GET"
               /\ events'[Len(events')].row = row_idx]_vars

C12_Witness ==
    /\ Len(events) >= 3
    /\ events[1] = [run |-> 1, row |-> 2, op |-> "GET", ok |-> FALSE]
    /\ events[2] = [run |-> 1, row |-> 3, op |-> "GET", ok |-> TRUE]
    /\ KeyAt(1) = KeyAt(2)
    /\ Cell(Loaded, 2, COL_TASK_ID + 1) # Cell(Loaded, 3, COL_TASK_ID + 1)
    /\ DOMAIN cache = { KeyAt(2) }

\* --------------------------------------------------------------------- C13
Unresolved(k) == events[k].op = "GET" /\ ~events[k].ok

\* C13: the POST is reached only with an id for the row's key, found by a
\* lookup of this process; a row whose lookup failed gets no POST and no
\* marker write, its marker cell stays blank in memory and in the file, and
\* the failed lookup counts the row as skipped and moves to the next row.
C13_NoPostUnresolved ==
    /\ [](/\ pc = "post" => issue_key \in DOMAIN cache
          /\ \A k \in DOMAIN events :
                events[k].op = "POST"
                => \E j \in Lookups(events[k].run) :
                       j < k /\ events[j].ok /\ KeyAt(j) = KeyAt(k)
          /\ \A k \in DOMAIN events :
                Unresolved(k)
                => /\ \A j \in EventsOf(events[k].run, events[k].row) :
                          events[j].op = "GET"
                   /\ events[k].run = Len(loads)
                      => /\ ~NonBlank(Cell(data, events[k].row, COL_IMPORTED + 1))
                         /\ ~Marked(file, events[k].row))
    /\ [][(pc = "lookup" /\ Len(events') > Len(events) /\ ~events'[Len(events')].ok)
            => /\ skipped_count' = skipped_count + 1
               /\ imported_count' = imported_count
               /\ file' = file /\ data' = data
               /\ pc' = "row" /\ row_idx' = row_idx + 1]_vars

C13_Witness ==
    /\ runs # <<>>
    /\ LastRun.how = "returned" /\ ~LastRun.dry
    /\ Len(Loaded) = 3
    /\ Len(events) = 4
    /\ Unresolved(1) /\ events[1].row = 2
    /\ Accepted(1, 3) /\ Stamped(1, 3)
    /\ LastRun.skipped = 1 /\ LastRun.imported = 1
    /\ ~Marked(file, 2) /\ Marked(file, 3)

\* --------------------------------------------------------------------- C14
\* the unmarked rows with an empty date, task or hours cell
EmptyRows(sheet) == { r \in DataRowIdx(sheet) : ~Marked(sheet, r) /\ ~Filled(sheet, r) }

StampedRows(n) == { r \in DataRowIdx(loads[n].sheet) : Stamped(n, r) }

\* C14: a run that returns has imported + skipped + E = number of data rows,
\* E counting the unmarked rows with an empty date, task or hours cell; in a
\* live run the imported rows are the rows whose marker write succeeded, each
\* after an accepted POST, at every moment of the run.
C14_CounterConservation ==
    /\ \A n \in DOMAIN runs :
          runs[n].how = "returned"
          => /\ runs[n].imported + runs[n].skipped + Cardinality(EmptyRows(loads[n].sheet))
                   = Cardinality(DataRowIdx(loads[n].sheet))
             /\ ~runs[n].dry => runs[n].imported = Cardinality(StampedRows(n))
    /\ \A n \in DOMAIN loads : \A r \in StampedRows(n) : Accepted(n, r)
    /\ (Running /\ ~dry_run) => imported_count = Cardinality(StampedRows(Len(loads)))

C14_Witness ==
    /\ runs # <<>>
    /\ LastRun.how = "returned" /\ ~LastRun.dry
    /\ Len(Loaded) = 3
    /\ EmptyRows(Loaded) = {2}
    /\ Cell(Loaded, 2, COL_DATE + 1) # <<>> /\ Cell(Loaded, 2, COL_HOURS + 1) # <<>>
    /\ StampedRows(Len(loads)) = {3}
    /\ LastRun.imported = 1 /\ LastRun.skipped = 0

====
